---- MODULE Spec2Model ----
(***************************************************************************)
(* Model of utils/data_loader.py and app.py of the NYC taxi dashboard.     *)
(*                                                                         *)
(*   Spec      one invocation of load_data_from_gdrive, step by step:      *)
(*             ResourceId extraction, primary transport, fallback          *)
(*             transport, existence check, parser dispatch.                *)
(*   SpecPrep  prepare_taxi_data applied to a bounded raw dataset, and     *)
(*             applied again to its own output.                            *)
(*   SpecApp   the Streamlit script of app.py, one action per load branch  *)
(*             of a page rerun, over st.session_state.                     *)
(*   SpecRace  two invocations of load_data_from_gdrive that run at the    *)
(*             same time on one destination file.                          *)
(*                                                                         *)
(* Strings the code inspects character by character (the reference, the    *)
(* output filename, column names) are sequences of one-character strings.  *)
(***************************************************************************)
EXTENDS Integers, Sequences, FiniteSets, TLC

VARIABLES
    gdrive_url,       \* argument: the reference string
    output_filename,  \* argument: the destination path
    pc,               \* position inside load_data_from_gdrive
    file_id,          \* local file_id: None or Some(id)
    result,           \* local result of the transport step: None or Some(path)
    disk,             \* the filesystem: path -> content tag
    disk0,            \* the filesystem when the load was called
    ret,              \* what the load returned: "pending", "None", "Loaded"
    msg,              \* which outcome was reported to the user
    primary,          \* how gdown.download ended
    primary_calls,    \* calls of gdown.download in this invocation
    fallback,         \* how the requests fallback ended
    fallback_calls,   \* calls of requests.get in this invocation
    status_code,      \* response.status_code of the fallback, 0 before it
    parser,           \* the pandas reader invoked, "none" before
    df_src,           \* content tag of the bytes the returned table was parsed from
    ppc,              \* position of the prepare_taxi_data run
    raw,              \* the dataset given to prepare_taxi_data
    clean,            \* the dataset prepare_taxi_data returned
    removed_rows,     \* the removal count prepare_taxi_data computed
    again,            \* prepare_taxi_data applied to its own output
    info,             \* whether the duplicate-removal note was shown
    sidebar,          \* the widget values of the current page run
    session_state,    \* st.session_state: [df, data_period]
    rerun,            \* what the current page run did: branch, outcome, screen
    loads,            \* concurrent loads: load -> [pc, result, ret, df_src]
    dest              \* the destination file the concurrent loads share:
                      \* [by, bytes], the load that wrote it last and what

loadVars == <<gdrive_url, output_filename, pc, file_id, result, disk, disk0, ret, msg,
              primary, primary_calls, fallback, fallback_calls, status_code, parser, df_src>>
prepVars == <<ppc, raw, clean, removed_rows, again, info>>
appVars == <<sidebar, session_state, rerun>>
raceVars == <<loads, dest>>
vars == <<loadVars, prepVars, appVars, raceVars>>

(***************************************************************************)
(* Optional values (Python None / a value).                                *)
(***************************************************************************)
None == <<>>
Some(x) == <<x>>
\* Python truthiness of an optional string: None and "" are falsy.
Truthy(o) == o # None /\ o[1] # <<>>

(***************************************************************************)
(* Regular expressions of the ResourceId extraction.                       *)
(***************************************************************************)
Lowers == {"a","b","c","d","e","f","g","h","i","j","k","l","m",
           "n","o","p","q","r","s","t","u","v","w","x","y","z"}
Uppers == {"A","B","C","D","E","F","G","H","I","J","K","L","M",
           "N","O","P","Q","R","S","T","U","V","W","X","Y","Z"}
Digits == {"0","1","2","3","4","5","6","7","8","9"}
\* the character class [a-zA-Z0-9_-]
IdChars == Lowers \cup Uppers \cup Digits \cup {"_", "-"}

\* the literal prefixes of the three patterns
pattern1 == <<"/", "f", "i", "l", "e", "/", "d", "/">>
pattern2 == <<"i", "d", "=">>
\* faulty variant: pattern 3 without the id= key
pattern3_NoIdKey == <<"/", "o", "p", "e", "n", "?">>
pattern3 == <<"/", "o", "p", "e", "n", "?", "i", "d", "=">>

\* the literal p occurs in s at position i
LiteralAt(s, i, p) ==
    /\ i + Len(p) - 1 <= Len(s)
    /\ \A k \in 1..Len(p) : s[i + k - 1] = p[k]

\* the greedy group ([a-zA-Z0-9_-]+) starting at j: the last position it takes
RECURSIVE GroupEnd(_, _)
GroupEnd(s, j) ==
    IF j + 1 <= Len(s) /\ s[j + 1] \in IdChars THEN GroupEnd(s, j + 1) ELSE j

\* re.search(p + '([a-zA-Z0-9_-]+)', s) scanning from position i:
\* None, or Some(group(1)) of the leftmost match
RECURSIVE SearchFrom(_, _, _)
SearchFrom(p, s, i) ==
    IF i > Len(s) THEN None
    ELSE IF /\ LiteralAt(s, i, p)
            /\ i + Len(p) <= Len(s)
            /\ s[i + Len(p)] \in IdChars
         THEN Some(SubSeq(s, i + Len(p), GroupEnd(s, i + Len(p))))
         ELSE SearchFrom(p, s, i + 1)

re_search(p, s) == SearchFrom(p, s, 1)

\* faulty variant: pattern 2 tried before pattern 1
ExtractFileId_P2First(url) ==
    LET m2 == re_search(pattern2, url)
        m1 == IF ~Truthy(m2) THEN re_search(pattern1, url) ELSE None
        f1 == IF m2 # None THEN m2 ELSE m1
        m3 == IF ~Truthy(f1) THEN re_search(pattern3, url) ELSE None
    IN  IF m3 # None THEN m3 ELSE f1

\* lines 26-46: file_id after the three attempts
ExtractFileId(url) ==
    LET m1 == re_search(pattern1, url)
        f1 == IF m1 # None THEN m1 ELSE None
        m2 == IF ~Truthy(f1) THEN re_search(pattern2, url) ELSE None
        f2 == IF m2 # None THEN m2 ELSE f1
        m3 == IF ~Truthy(f2) THEN re_search(pattern3, url) ELSE None
    IN  IF m3 # None THEN m3 ELSE f2

(***************************************************************************)
(* Inputs of one load: references built from chunks, output filenames.     *)
(***************************************************************************)
MaxChunks == 3

Host == <<"h", "t", "t", "p", "s", ":", "/", "/", "d", "r", "i", "v", "e", ".",
          "e", "x", "a", "m", "p", "l", "e", ".", "c", "o", "m">>
IdABC == <<"A", "B", "C", "1", "2", "3">>
IdXYZ == <<"X", "Y", "Z", "7", "8", "9">>
ViewTail == <<"/", "v", "i", "e", "w", "?", "u", "s", "p", "=", "s", "h", "a", "r", "i", "n", "g">>
UcPath == <<"/", "u", "c", "?">>
OpenPath == <<"/", "o", "p", "e", "n", "?">>
NotAUrl == <<"n", "o", "t", "-", "a", "-", "u", "r", "l">>

Chunks == {pattern1, pattern2, OpenPath, IdABC, IdXYZ, ViewTail}

RECURSIVE Concat(_)
Concat(ss) == IF ss = <<>> THEN <<>> ELSE Head(ss) \o Concat(Tail(ss))

Refs == { h \o Concat(cs) : h \in {<<>>, Host},
                            cs \in UNION { [1..n -> Chunks] : n \in 0..MaxChunks } }

\* "https://drive.example.com/file/d/ABC123/view?usp=sharing"
RefFileD == Host \o pattern1 \o IdABC \o ViewTail
\* "https://drive.example.com/uc?id=XYZ789"
RefUcId == Host \o UcPath \o pattern2 \o IdXYZ
\* "https://drive.example.com/open?id=ABC123"
RefOpenId == Host \o OpenPath \o pattern2 \o IdABC

\* app.py: output_file = f"nyc_taxi_data.{file_format}", file_format in csv, parquet, xlsx
NameCsv == <<"n", "y", "c", "_", "t", "a", "x", "i", "_", "d", "a", "t", "a", ".", "c", "s", "v">>
NameParquet == <<"n", "y", "c", "_", "t", "a", "x", "i", "_", "d", "a", "t", "a", ".",
                 "p", "a", "r", "q", "u", "e", "t">>
NameXlsx == <<"n", "y", "c", "_", "t", "a", "x", "i", "_", "d", "a", "t", "a", ".", "x", "l", "s", "x">>
\* other names a caller of load_data_from_gdrive may choose
NameXls == <<"t", "r", "i", "p", "s", ".", "x", "l", "s">>
NameTxt == <<"t", "r", "i", "p", "s", ".", "t", "x", "t">>
NameUpperCsv == <<"T", "R", "I", "P", "S", ".", "C", "S", "V">>
NameBareCsv == <<"c", "s", "v">>
NameCsvGz == <<"t", "r", "i", "p", "s", ".", "c", "s", "v", ".", "g", "z">>
NameXlsm == <<"t", "r", "i", "p", "s", ".", "x", "l", "s", "m">>

Filenames == {NameCsv, NameParquet, NameXlsx, NameXls, NameTxt, NameUpperCsv,
              NameBareCsv, NameCsvGz, NameXlsm}

\* two paths no load is given as its destination: one present, one absent
KeptPath == <<"k", "e", "p", "t", ".", "b", "i", "n">>
FreePath == <<"n", "o", "n", "e", ".", "b", "i", "n">>
Paths == Filenames \cup {KeptPath, FreePath}

\* every chunk-built reference and "not-a-url" with the default filename, the
\* three documented URL forms with every filename
LoadInputs == { <<u, NameCsv>> : u \in Refs \cup {NotAUrl} }
              \cup { <<u, f>> : u \in {RefFileD, RefUcId, RefOpenId}, f \in Filenames }

(***************************************************************************)
(* The filesystem. Content tags: "absent"; "old" a complete file that was  *)
(* there before the call; "gdown" written by the primary transport;        *)
(* "body" response.content written verbatim; "partial" an interrupted      *)
(* write.                                                                  *)
(***************************************************************************)
Contents == {"absent", "old", "gdown", "body", "partial"}

exists(path) == disk[path] # "absent"

\* line 74
HTTP_OK == 200
Statuses == {200, 204, 302, 403, 404, 500}

(***************************************************************************)
(* Filename dispatch, lines 101-109.                                       *)
(***************************************************************************)
ExtCsv == <<".", "c", "s", "v">>
ExtParquet == <<".", "p", "a", "r", "q", "u", "e", "t">>
ExtXlsx == <<".", "x", "l", "s", "x">>
ExtXls == <<".", "x", "l", "s">>

\* str.endswith
endswith(s, x) ==
    /\ Len(x) <= Len(s)
    /\ \A k \in 1..Len(x) : s[Len(s) - Len(x) + k] = x[k]

\* faulty variant: the '.xls' alternative is missing
Dispatch_NoXls(name) ==
    IF endswith(name, ExtCsv) THEN "read_csv"
    ELSE IF endswith(name, ExtParquet) THEN "read_parquet"
    ELSE IF endswith(name, ExtXlsx) THEN "read_excel"
    ELSE "unsupported"

\* the reader the if/elif chain selects, or "unsupported"
Dispatch(name) ==
    IF endswith(name, ExtCsv) THEN "read_csv"
    ELSE IF endswith(name, ExtParquet) THEN "read_parquet"
    ELSE IF endswith(name, ExtXlsx) \/ endswith(name, ExtXls) THEN "read_excel"
    ELSE "unsupported"

(***************************************************************************)
(* Ways a step of the load ends.                                           *)
(***************************************************************************)
\* return None after reporting m
Return(m) == [pc |-> "done", ret |-> "None", msg |-> m]

\* faulty variant: the handler re-raises
OuterExcept_Reraise == [pc |-> "raised", ret |-> "pending", msg |-> "ParseError"]

\* lines 117-123: except Exception around the whole body
OuterExcept == Return("ParseError")

(***************************************************************************)
(* load_data_from_gdrive, one invocation.                                  *)
(***************************************************************************)
PrepIdle ==
    /\ ppc = "idle"
    /\ raw = <<>>
    /\ clean = <<>>
    /\ removed_rows = 0
    /\ again = <<>>
    /\ info = FALSE

\* no page run of app.py is modelled
AppIdle ==
    /\ sidebar = <<>>
    /\ session_state = <<>>
    /\ rerun = <<>>

\* no concurrent loads are modelled
RaceIdle ==
    /\ loads = <<>>
    /\ dest = [by |-> 0, bytes |-> "absent"]

\* the state when load_data_from_gdrive(gdrive_url, output_filename) is entered
Init ==
    /\ \E in \in LoadInputs :
          /\ gdrive_url = in[1]
          /\ output_filename = in[2]
    /\ \E old \in BOOLEAN :
          disk = [p \in Paths |->
                    IF p = KeptPath \/ (p = output_filename /\ old) THEN "old" ELSE "absent"]
    /\ disk0 = disk
    /\ pc = "extract"
    /\ file_id = None
    /\ result = None
    /\ ret = "pending"
    /\ msg = "none"
    /\ primary = "not called"
    /\ primary_calls = 0
    /\ fallback = "not called"
    /\ fallback_calls = 0
    /\ status_code = 0
    /\ parser = "none"
    /\ df_src = "none"
    /\ PrepIdle
    /\ AppIdle
    /\ RaceIdle

\* pc, ret and msg take the values of the ending e
End(e) ==
    /\ pc' = e.pc
    /\ ret' = e.ret
    /\ msg' = e.msg

\* faulty variant: the "if not file_id" rejection is missing
Extract_NoReject ==
    /\ pc = "extract"
    /\ file_id' = ExtractFileId(gdrive_url)
    /\ pc' = "primary"
    /\ UNCHANGED <<gdrive_url, output_filename, result, disk, disk0, ret, msg, primary,
                   primary_calls, fallback, fallback_calls, status_code, parser, df_src,
                   prepVars, appVars, raceVars>>

\* lines 25-61: extraction, InvalidReference or the download URL
Extract ==
    /\ pc = "extract"
    /\ file_id' = ExtractFileId(gdrive_url)
    /\ IF ~Truthy(file_id')
       THEN End(Return("InvalidReference"))
       ELSE pc' = "primary" /\ UNCHANGED <<ret, msg>>
    /\ UNCHANGED <<gdrive_url, output_filename, result, disk, disk0, primary, primary_calls,
                   fallback, fallback_calls, status_code, parser, df_src, prepVars, appVars, raceVars>>

\* what a transport that raised may have left at the destination
AfterFailedWrite == {disk, [disk EXCEPT ![output_filename] = "partial"]}

\* faulty variant: every exception of the primary transport starts the fallback
PrimaryDownload_AnyErrorFallsBack ==
    /\ pc = "primary"
    /\ primary_calls' = primary_calls + 1
    /\ \/ /\ primary' = "returned"
          /\ result' = Some(output_filename)
          /\ disk' = [disk EXCEPT ![output_filename] = "gdown"]
          /\ pc' = "check"
       \/ /\ primary' = "returned"
          /\ result' \in {None, Some(output_filename)}
          /\ disk' = disk
          /\ pc' = "check"
       \/ /\ primary' \in {"AttributeError", "Exception"}
          /\ disk' \in AfterFailedWrite
          /\ pc' = "fallback"
          /\ UNCHANGED result
    /\ UNCHANGED <<gdrive_url, output_filename, file_id, disk0, ret, msg, fallback,
                   fallback_calls, status_code, parser, df_src, prepVars, appVars, raceVars>>

\* lines 65-67, 68-70, 84-87: gdown.download(download_url, output_filename, ...)
\* returns the path having written the file, returns the path without a file
\* (silent failure), returns None, raises AttributeError, or raises another
\* exception
PrimaryDownload ==
    /\ pc = "primary"
    /\ primary_calls' = primary_calls + 1
    /\ \/ /\ primary' = "returned"
          /\ result' = Some(output_filename)
          /\ disk' = [disk EXCEPT ![output_filename] = "gdown"]
          /\ pc' = "check"
          /\ UNCHANGED <<ret, msg>>
       \/ /\ primary' = "returned"
          /\ result' \in {None, Some(output_filename)}
          /\ disk' = disk
          /\ pc' = "check"
          /\ UNCHANGED <<ret, msg>>
       \/ /\ primary' = "AttributeError"
          /\ disk' \in AfterFailedWrite
          /\ pc' = "fallback"
          /\ UNCHANGED <<result, ret, msg>>
       \/ /\ primary' = "Exception"
          /\ disk' \in AfterFailedWrite
          /\ End(Return("DownloadError"))
          /\ UNCHANGED result
    /\ UNCHANGED <<gdrive_url, output_filename, file_id, disk0, fallback, fallback_calls,
                   status_code, parser, df_src, prepVars, appVars, raceVars>>

\* faulty variant: the body is written whatever the status
FallbackDownload_NoStatusCheck ==
    /\ pc = "fallback"
    /\ fallback_calls' = fallback_calls + 1
    /\ \/ /\ fallback' = "get raised"
          /\ End(Return("DownloadError"))
          /\ UNCHANGED <<status_code, disk, result>>
       \/ \E s \in Statuses :
          /\ status_code' = s
          /\ fallback' = "written"
          /\ disk' = [disk EXCEPT ![output_filename] = "body"]
          /\ result' = Some(output_filename)
          /\ pc' = "check"
          /\ UNCHANGED <<ret, msg>>
    /\ UNCHANGED <<gdrive_url, output_filename, file_id, disk0, primary, primary_calls,
                   parser, df_src, prepVars, appVars, raceVars>>

\* lines 71-83: requests.get(download_url, allow_redirects=True), then the
\* write of response.content when status_code == 200
FallbackDownload ==
    /\ pc = "fallback"
    /\ fallback_calls' = fallback_calls + 1
    /\ \/ \* requests.get raises
          /\ fallback' = "get raised"
          /\ End(Return("DownloadError"))
          /\ UNCHANGED <<status_code, disk, result>>
       \/ \E s \in Statuses :
          /\ status_code' = s
          /\ IF s = HTTP_OK
             THEN \/ \* open(output_filename, 'wb') raises
                     /\ fallback' = "write raised"
                     /\ End(Return("DownloadError"))
                     /\ UNCHANGED <<disk, result>>
                  \/ \* f.write raises after the file was created or truncated
                     /\ fallback' = "write raised"
                     /\ disk' = [disk EXCEPT ![output_filename] = "partial"]
                     /\ End(Return("DownloadError"))
                     /\ UNCHANGED result
                  \/ /\ fallback' = "written"
                     /\ disk' = [disk EXCEPT ![output_filename] = "body"]
                     /\ result' = Some(output_filename)
                     /\ pc' = "check"
                     /\ UNCHANGED <<ret, msg>>
             ELSE /\ fallback' = "bad status"
                  /\ End(Return("DownloadError"))
                  /\ UNCHANGED <<disk, result>>
    /\ UNCHANGED <<gdrive_url, output_filename, file_id, disk0, primary, primary_calls,
                   parser, df_src, prepVars, appVars, raceVars>>

\* faulty variant: only the transport's result is looked at
DownloadMissing_ResultOnly == result = None

\* line 89: result is None or not os.path.exists(output_filename)
DownloadMissing == result = None \/ ~exists(output_filename)

\* lines 89-96
CheckDownloaded ==
    /\ pc = "check"
    /\ IF DownloadMissing
       THEN End(Return("DownloadError"))
       ELSE pc' = "parse" /\ UNCHANGED <<ret, msg>>
    /\ UNCHANGED <<gdrive_url, output_filename, file_id, result, disk, disk0, primary,
                   primary_calls, fallback, fallback_calls, status_code, parser, df_src,
                   prepVars, appVars, raceVars>>

\* faulty variant: line 112 active, os.remove(output_filename) after parsing
Parse_Cleanup ==
    /\ pc = "parse"
    /\ LET reader == Dispatch(output_filename) IN
       IF reader = "unsupported"
       THEN /\ End(Return("UnsupportedFormat"))
            /\ UNCHANGED <<parser, df_src, disk>>
       ELSE /\ parser' = reader
            /\ \/ /\ exists(output_filename)
                  /\ df_src' = disk[output_filename]
                  /\ disk' = [disk EXCEPT ![output_filename] = "absent"]
                  /\ End([pc |-> "done", ret |-> "Loaded", msg |-> "Loaded"])
               \/ /\ End(OuterExcept)
                  /\ UNCHANGED <<df_src, disk>>
    /\ UNCHANGED <<gdrive_url, output_filename, file_id, result, disk0, primary,
                   primary_calls, fallback, fallback_calls, status_code, prepVars, appVars, raceVars>>

\* lines 98-115: the reader chosen by extension reads the file; it returns
\* the whole table or raises (a missing file, bytes invalid for the format)
Parse ==
    /\ pc = "parse"
    /\ LET reader == Dispatch(output_filename) IN
       IF reader = "unsupported"
       THEN /\ End(Return("UnsupportedFormat"))
            /\ UNCHANGED <<parser, df_src>>
       ELSE /\ parser' = reader
            /\ \/ /\ exists(output_filename)
                  /\ df_src' = disk[output_filename]
                  /\ End([pc |-> "done", ret |-> "Loaded", msg |-> "Loaded"])
               \/ /\ End(OuterExcept)
                  /\ UNCHANGED df_src
    /\ UNCHANGED <<gdrive_url, output_filename, file_id, result, disk, disk0, primary,
                   primary_calls, fallback, fallback_calls, status_code, prepVars, appVars, raceVars>>

Next ==
    \/ Extract
    \/ PrimaryDownload
    \/ FallbackDownload
    \/ CheckDownloaded
    \/ Parse

Spec == Init /\ [][Next]_vars

(***************************************************************************)
(* Properties of load_data_from_gdrive.                                    *)
(***************************************************************************)
\* pattern p (its literal, then at least one identifier character) matches s at i
MatchAt(p, s, i) ==
    /\ i + Len(p) <= Len(s)
    /\ SubSeq(s, i, i + Len(p) - 1) = p
    /\ s[i + Len(p)] \in IdChars

Matches(p, s) == \E i \in 1..Len(s) : MatchAt(p, s, i)

\* f is the identifier pattern p captures in s: the maximal run of identifier
\* characters after the literal of the leftmost match
IsCapture(p, s, f) ==
    \E i \in 1..Len(s) :
        /\ MatchAt(p, s, i)
        /\ \A j \in 1..(i - 1) : ~MatchAt(p, s, j)
        /\ \E e \in (i + Len(p))..Len(s) :
              /\ f = SubSeq(s, i + Len(p), e)
              /\ \A k \in (i + Len(p))..e : s[k] \in IdChars
              /\ e = Len(s) \/ s[e + 1] \notin IdChars

MatchesAny(s) == Matches(pattern1, s) \/ Matches(pattern2, s) \/ Matches(pattern3, s)

\* C1: once extraction has run, file_id is the identifier captured by the
\* first of the patterns '/file/d/ID', 'id=ID', '/open?id=ID' (in that order)
\* that matches the reference; '.../file/d/ABC123/view?usp=sharing' gives
\* 'ABC123' and '.../uc?id=XYZ789' gives 'XYZ789'.
C1_FirstMatchingPatternWins ==
    pc # "extract" =>
       LET s == gdrive_url IN
       /\ MatchesAny(s) => file_id # None
       /\ Matches(pattern1, s) => IsCapture(pattern1, s, file_id[1])
       /\ ~Matches(pattern1, s) /\ Matches(pattern2, s) => IsCapture(pattern2, s, file_id[1])
       /\ ~Matches(pattern1, s) /\ ~Matches(pattern2, s) /\ Matches(pattern3, s)
             => IsCapture(pattern3, s, file_id[1])
       /\ s = RefFileD => file_id = Some(IdABC)
       /\ s = RefUcId => file_id = Some(IdXYZ)

\* a reference matched by patterns 1 and 2 with different identifiers, extracted
C1_Witness ==
    /\ pc # "extract"
    /\ Matches(pattern1, gdrive_url)
    /\ Matches(pattern2, gdrive_url)
    /\ file_id # None
    /\ ~IsCapture(pattern2, gdrive_url, file_id[1])

\* C2: a reference that matches none of the three patterns ends the load
\* with None and the InvalidReference report, no transport call made and the
\* filesystem as it was at the call.
C2_InvalidReferenceNoDownload ==
    (pc # "extract" /\ ~MatchesAny(gdrive_url)) =>
       /\ pc = "done"
       /\ ret = "None"
       /\ msg = "InvalidReference"
       /\ primary_calls = 0
       /\ fallback_calls = 0
       /\ primary = "not called"
       /\ fallback = "not called"
       /\ disk = disk0

C2_Witness ==
    /\ gdrive_url = NotAUrl
    /\ pc = "done"
    /\ msg = "InvalidReference"

\* C3: gdown.download and requests.get are each called at most once; the
\* fallback GET is made exactly when the primary call raised AttributeError;
\* any other exception of the primary call ends the load with None and the
\* DownloadError report, without a fallback.
C3_OneFallbackOnAttributeError ==
    /\ primary_calls <= 1
    /\ fallback_calls <= 1
    /\ fallback_calls = 1 => primary = "AttributeError"
    /\ (primary = "AttributeError" /\ pc # "fallback") => fallback_calls = 1
    /\ primary = "Exception" =>
          /\ pc = "done"
          /\ ret = "None"
          /\ msg = "DownloadError"
          /\ primary_calls = 1
          /\ fallback_calls = 0

C3_Witness ==
    /\ pc = "done"
    /\ primary = "AttributeError"
    /\ primary_calls = 1
    /\ fallback_calls = 1

\* C4: when the fallback ran, the destination holds the response body exactly
\* when the status was 200 and the write did not raise, and the load then
\* goes on to the existence check and the parsing; a status other than 200,
\* a raising GET and a raising write end the load with None and the
\* DownloadError report, no reader invoked.
C4_FallbackWritesOnSuccessOnly ==
    fallback # "not called" =>
       /\ disk[output_filename] = "body" <=> (status_code = HTTP_OK /\ fallback = "written")
       /\ status_code \notin {0, HTTP_OK} => fallback = "bad status"
       /\ fallback = "written" =>
             /\ result = Some(output_filename)
             /\ pc \in {"check", "parse", "done"}
             /\ pc = "done" => msg \in {"Loaded", "ParseError", "UnsupportedFormat"}
       /\ fallback \in {"get raised", "write raised", "bad status"} =>
             /\ pc = "done"
             /\ ret = "None"
             /\ msg = "DownloadError"
             /\ parser = "none"

C4_Witness ==
    /\ fallback = "written"
    /\ status_code = HTTP_OK
    /\ pc = "done"
    /\ ret = "Loaded"
    /\ df_src = "body"

\* the transport step returned instead of raising
TransportReturned == primary = "returned" \/ fallback = "written"

\* C5: when the transport returned and either reported no result or left no
\* file at the destination, the load ends with None and the DownloadError
\* report and no reader is invoked; a reader is invoked only when the
\* destination file exists.
C5_MissingFileIsDownloadError ==
    /\ (pc = "done" /\ TransportReturned /\ (result = None \/ ~exists(output_filename))) =>
          /\ ret = "None"
          /\ msg = "DownloadError"
          /\ parser = "none"
    /\ pc = "parse" => (result # None /\ exists(output_filename))
    /\ parser # "none" => exists(output_filename)

\* the transport reported success and no file is at the destination
C5_Witness ==
    /\ pc = "done"
    /\ primary = "returned"
    /\ result # None
    /\ ~exists(output_filename)
    /\ msg = "DownloadError"

\* name ends with the extension x
HasExtension(name, x) == \E pre \in 0..Len(name) : name = SubSeq(name, 1, pre) \o x

\* the download succeeded and the load reached the parsing step and ended
ParsingDone == pc = "done" /\ msg \in {"Loaded", "ParseError", "UnsupportedFormat"}

\* C6: after a successful download the reader is the one of the filename's
\* extension: '.csv' read_csv, '.parquet' read_parquet, '.xlsx' and '.xls'
\* read_excel; with any other name the load ends with None and the
\* UnsupportedFormat report and no reader is invoked.
C6_ParserByExtension ==
    ParsingDone =>
       LET n == output_filename IN
       /\ HasExtension(n, ExtCsv) => parser = "read_csv"
       /\ HasExtension(n, ExtParquet) => parser = "read_parquet"
       /\ (HasExtension(n, ExtXlsx) \/ HasExtension(n, ExtXls)) => parser = "read_excel"
       /\ ~(\E x \in {ExtCsv, ExtParquet, ExtXlsx, ExtXls} : HasExtension(n, x)) =>
             /\ parser = "none"
             /\ ret = "None"
             /\ msg = "UnsupportedFormat"

C6_Witness ==
    /\ ParsingDone
    /\ output_filename = NameXls
    /\ parser = "read_excel"

\* C7: no step of the load changes a path other than output_filename, and no
\* step removes a file: a destination file that was written is there when
\* the load returns, whatever it returns.
C7_OnlyDestinationWrittenNothingDeleted ==
    [][\A p \in Paths :
          /\ p # output_filename => disk'[p] = disk[p]
          /\ disk[p] # "absent" => disk'[p] # "absent"]_vars

\* the load wrote a new destination file and returned UnsupportedFormat
C7_Witness ==
    /\ pc = "done"
    /\ msg = "UnsupportedFormat"
    /\ disk0[output_filename] = "absent"
    /\ disk[output_filename] \in {"gdown", "body"}

\* C8: the load never ends by raising; it returns None, or a table that a
\* reader parsed whole from a complete file.
C8_NeverRaisesAllOrNothing ==
    /\ pc # "raised"
    /\ pc = "done" =>
          /\ ret \in {"None", "Loaded"}
          /\ ret = "Loaded" => (parser # "none" /\ df_src \in {"old", "gdown", "body"})
          /\ ret = "None" => df_src = "none"

\* a file is present and its reader raised
C8_Witness ==
    /\ pc = "done"
    /\ msg = "ParseError"
    /\ parser # "none"
    /\ exists(output_filename)

(***************************************************************************)
(* prepare_taxi_data.                                                      *)
(*                                                                         *)
(* A dataset is [cols, rows]: cols a sequence of [name, dtype, label],     *)
(* label the Python type of the column label ("str", or "int" for a        *)
(* numeric header cell of a spreadsheet, name then holding its digits);    *)
(* rows a sequence of [idx, cells], idx the row's index label.  Cell       *)
(* values:                                                                 *)
(*   <<"int", n>>      an integer                                          *)
(*   <<"float", t>>    the float t/10          <<"nan">>   float NaN       *)
(*   <<"str", s>>      a text                  <<"none">>  None            *)
(*   <<"ts", n>>       the timestamp n ns after the epoch                  *)
(*   <<"nat">>         NaT                     <<"bool", b>> a boolean     *)
(***************************************************************************)
MaxRows == 5

IntDtypes == {"int8", "int16", "int32", "int64"}

\* pd.api.types.is_float_dtype, line 142
is_float_dtype(dtype) == dtype = "float64"

\* pd.api.types.is_integer_dtype, line 145
is_integer_dtype(dtype) == dtype \in IntDtypes

\* the values of column j of dataset t
ColumnValues(t, j) == [i \in 1..Len(t.rows) |-> t.rows[i].cells[j]]

\* pd.to_numeric(..., downcast='integer') on an integer column, line 147: the
\* values stay, the dtype becomes the smallest signed width holding them all
DowncastInteger(vals) ==
    LET Fits(lo, hi) == \A i \in 1..Len(vals) : lo <= vals[i][2] /\ vals[i][2] <= hi
    IN  IF Fits(-128, 127) THEN "int8"
        ELSE IF Fits(-32768, 32767) THEN "int16"
        ELSE IF Fits(-2147483647 - 1, 2147483647) THEN "int32"
        ELSE "int64"

\* faulty variant: an integer column is narrowed by one width per application
NumericDtype_OneWidth(t, j) ==
    LET d == t.cols[j].dtype
        least == DowncastInteger(ColumnValues(t, j))
    IN  IF is_float_dtype(d) THEN d
        ELSE IF is_integer_dtype(d)
             THEN IF d = least THEN d
                  ELSE IF d = "int64" THEN "int32"
                  ELSE IF d = "int32" THEN "int16"
                  ELSE "int8"
        ELSE d

\* lines 142-147: the dtype of column j after the numeric step (pd.to_numeric
\* leaves a float column as it is and downcasts an integer column)
NumericDtype(t, j) ==
    LET d == t.cols[j].dtype IN
    IF is_float_dtype(d) THEN d
    ELSE IF is_integer_dtype(d) THEN DowncastInteger(ColumnValues(t, j))
    ELSE d

\* lines 140-147
CoerceNumeric(t) ==
    [t EXCEPT !.cols = [j \in 1..Len(t.cols) |->
                           [t.cols[j] EXCEPT !.dtype = NumericDtype(t, j)]]]

LowerLetters == <<"a", "b", "c", "d", "e", "f", "g", "h", "i", "j", "k", "l", "m",
                  "n", "o", "p", "q", "r", "s", "t", "u", "v", "w", "x", "y", "z">>
UpperLetters == <<"A", "B", "C", "D", "E", "F", "G", "H", "I", "J", "K", "L", "M",
                  "N", "O", "P", "Q", "R", "S", "T", "U", "V", "W", "X", "Y", "Z">>

\* str.lower, line 152
lower(s) ==
    [i \in 1..Len(s) |->
        IF s[i] \in Uppers
        THEN LowerLetters[CHOOSE k \in 1..Len(UpperLetters) : UpperLetters[k] = s[i]]
        ELSE s[i]]

\* keyword in col.lower(), line 152
Contains(s, k) == \E i \in 1..(Len(s) - Len(k) + 1) : SubSeq(s, i, i + Len(k) - 1) = k

KwPickup == <<"p", "i", "c", "k", "u", "p">>
KwDropoff == <<"d", "r", "o", "p", "o", "f", "f">>
KwDate == <<"d", "a", "t", "e">>
KwTime == <<"t", "i", "m", "e">>
Keywords == {KwPickup, KwDropoff, KwDate, KwTime}

\* faulty variant: the name is compared without lower()
IsDatetimeName_CaseSensitive(name) == \E k \in Keywords : Contains(name, k)

\* line 152: any(keyword in col.lower() for keyword in [...])
IsDatetimeName(name) == \E k \in Keywords : Contains(lower(name), k)

T1 == "1970-01-01 00:00:01"
T2 == "1970-01-01 00:00:02"

\* the texts of the model that parse as timestamps, with their nanoseconds
ParseText(s) ==
    CASE s = T1 -> <<"ts", 1000000000>>
      [] s = T2 -> <<"ts", 2000000000>>
      [] OTHER -> <<"nat">>

\* pd.to_datetime(..., errors='coerce') on one value, line 154: an integer or
\* a float is a count of nanoseconds, a text is parsed, a timestamp stays,
\* a missing or unparseable value is NaT
to_datetime_value(v) ==
    CASE v[1] = "int" -> <<"ts", v[2]>>
      [] v[1] = "float" -> <<"ts", (v[2] + 5) \div 10>>
      [] v[1] = "str" -> ParseText(v[2])
      [] v[1] = "ts" -> v
      [] OTHER -> <<"nat">>

\* pd.to_datetime raises for the whole column (TypeError on a boolean
\* column), lines 153-157
to_datetime_raises(dtype) == dtype = "bool"

\* line 152-157: whether column j is replaced by its parsed timestamps
Converted(t, j) == IsDatetimeName(t.cols[j].name) /\ ~to_datetime_raises(t.cols[j].dtype)

\* faulty variant: the parsed timestamps go to a new name
ConvertDatetimes_Renamed(t) ==
    [cols |-> [j \in 1..Len(t.cols) |->
                  IF Converted(t, j)
                  THEN [t.cols[j] EXCEPT !.name = @ \o <<"_", "d", "t">>,
                                         !.dtype = "datetime64[ns]"]
                  ELSE t.cols[j]],
     rows |-> [i \in 1..Len(t.rows) |->
                  [idx |-> t.rows[i].idx,
                   cells |-> [j \in 1..Len(t.cols) |->
                                IF Converted(t, j)
                                THEN to_datetime_value(t.rows[i].cells[j])
                                ELSE t.rows[i].cells[j]]]]]

\* lines 150-157
ConvertDatetimes(t) ==
    [cols |-> [j \in 1..Len(t.cols) |->
                  IF Converted(t, j)
                  THEN [t.cols[j] EXCEPT !.dtype = "datetime64[ns]"]
                  ELSE t.cols[j]],
     rows |-> [i \in 1..Len(t.rows) |->
                  [idx |-> t.rows[i].idx,
                   cells |-> [j \in 1..Len(t.cols) |->
                                IF Converted(t, j)
                                THEN to_datetime_value(t.rows[i].cells[j])
                                ELSE t.rows[i].cells[j]]]]]

\* faulty variant: rows are compared on the first column only
duplicated_FirstColumn(rows, i) ==
    \E j \in 1..(i - 1) :
        Len(rows[i].cells) > 0 /\ rows[j].cells[1] = rows[i].cells[1]

\* DataFrame.duplicated(keep='first'): row i repeats an earlier row in every
\* column (missing values compare equal); line 161
duplicated(rows, i) == \E j \in 1..(i - 1) : rows[j].cells = rows[i].cells

\* the rows from position i on that are not marked duplicated
RECURSIVE KeepFrom(_, _)
KeepFrom(rows, i) ==
    IF i > Len(rows) THEN <<>>
    ELSE IF duplicated(rows, i) THEN KeepFrom(rows, i + 1)
    ELSE <<rows[i]>> \o KeepFrom(rows, i + 1)

\* faulty variant: the result of drop_duplicates() is not assigned
drop_duplicates_NotAssigned(t) == t

\* line 161: df_clean.drop_duplicates()
drop_duplicates(t) == [t EXCEPT !.rows = KeepFrom(t.rows, 1)]

\* the dataset before line 159
Coerced(df) == ConvertDatetimes(CoerceNumeric(df))

\* line 152: col.lower() is evaluated outside the try of line 153; a label
\* that is not a str has no lower() and the AttributeError leaves the function
LowerRaises(df) == \E j \in 1..Len(df.cols) : df.cols[j].label # "str"

\* lines 137-170: the returned dataset, the removal count and whether the
\* note of line 165 is shown; or raised, when the function ends by raising
prepare_taxi_data(df) ==
    IF LowerRaises(df)
    THEN [raised |-> TRUE, df |-> <<>>, removed_rows |-> 0, info |-> FALSE]
    ELSE LET coerced == Coerced(df)
             initial_rows == Len(coerced.rows)
             df_clean == drop_duplicates(coerced)
             removed == initial_rows - Len(df_clean.rows)
         IN  [raised |-> FALSE, df |-> df_clean, removed_rows |-> removed,
              info |-> removed > 0]

(***************************************************************************)
(* Raw datasets: a schema and up to MaxRows rows drawn from its rows.      *)
(***************************************************************************)
ColFare == <<"f", "a", "r", "e", "_", "a", "m", "o", "u", "n", "t">>
ColPassengers == <<"p", "a", "s", "s", "e", "n", "g", "e", "r", "_", "c", "o", "u", "n", "t">>
ColTpepPickup == <<"t", "p", "e", "p", "_", "p", "i", "c", "k", "u", "p", "_",
                   "d", "a", "t", "e", "t", "i", "m", "e">>
ColTripTime == <<"t", "r", "i", "p", "_", "t", "i", "m", "e", "_", "i", "n", "_", "s", "e", "c", "s">>
ColDropoffTime == <<"D", "r", "o", "p", "o", "f", "f", "_", "T", "i", "m", "e">>
ColDateFlag == <<"d", "a", "t", "e", "_", "f", "l", "a", "g">>
ColLpepPickup == <<"l", "p", "e", "p", "_", "p", "i", "c", "k", "u", "p", "_",
                   "d", "a", "t", "e", "t", "i", "m", "e">>
ColVendor == <<"V", "e", "n", "d", "o", "r", "I", "D">>
ColFlag == <<"s", "t", "o", "r", "e", "_", "a", "n", "d", "_", "f", "w", "d", "_", "f", "l", "a", "g">>

\* a spreadsheet header cell holding the number 2023
Col2023 == <<"2", "0", "2", "3">>

Col(n, d) == [name |-> n, dtype |-> d, label |-> "str"]
IntLabelCol(n, d) == [name |-> n, dtype |-> d, label |-> "int"]

Schemas == {
    [cols |-> <<Col(ColFare, "float64")>>,
     dom |-> {<< <<"float", 12>> >>, << <<"nan">> >>}],
    [cols |-> <<Col(ColPassengers, "int64")>>,
     dom |-> {<< <<"int", 1>> >>, << <<"int", 300>> >>}],
    [cols |-> <<Col(ColTpepPickup, "object")>>,
     dom |-> {<< <<"str", T1>> >>, << <<"str", "bad">> >>, << <<"none">> >>}],
    [cols |-> <<Col(ColTripTime, "int64")>>,
     dom |-> {<< <<"int", 1>> >>, << <<"int", 300>> >>}],
    [cols |-> <<Col(ColDropoffTime, "float64")>>,
     dom |-> {<< <<"float", 10>> >>, << <<"float", 12>> >>, << <<"nan">> >>}],
    [cols |-> <<Col(ColDateFlag, "bool")>>,
     dom |-> {<< <<"bool", TRUE>> >>, << <<"bool", FALSE>> >>}],
    [cols |-> <<Col(ColLpepPickup, "datetime64[ns]")>>,
     dom |-> {<< <<"ts", 1000000000>> >>, << <<"nat">> >>}],
    [cols |-> <<Col(ColTpepPickup, "object"), Col(ColVendor, "int64")>>,
     dom |-> {<< <<"str", T2>>, <<"int", 1>> >>, << <<"str", "bad">>, <<"int", 1>> >>,
              << <<"str", "n/a">>, <<"int", 1>> >>, << <<"str", T2>>, <<"int", 2>> >>}],
    [cols |-> <<Col(ColFlag, "object"), Col(ColFare, "float64")>>,
     dom |-> {<< <<"str", "Y">>, <<"float", 10>> >>, << <<"str", "N">>, <<"float", 10>> >>,
              << <<"str", "Y">>, <<"nan">> >>, << <<"none">>, <<"nan">> >>}],
    [cols |-> <<IntLabelCol(Col2023, "int64")>>,
     dom |-> {<< <<"int", 1>> >>, << <<"int", 300>> >>}] }

\* the datasets of schema s with n rows, indexed 1..n as a reader leaves them
Datasets(s, n) ==
    { [cols |-> s.cols, rows |-> [i \in 1..n |-> [idx |-> i, cells |-> f[i]]]] :
        f \in [1..n -> s.dom] }

RawDatasets == UNION { Datasets(s, n) : s \in Schemas, n \in 0..MaxRows }

LoadIdle ==
    /\ gdrive_url = <<>>
    /\ output_filename = NameCsv
    /\ disk = [p \in Paths |-> "absent"]
    /\ disk0 = disk
    /\ pc = "idle"
    /\ file_id = None
    /\ result = None
    /\ ret = "pending"
    /\ msg = "none"
    /\ primary = "not called"
    /\ primary_calls = 0
    /\ fallback = "not called"
    /\ fallback_calls = 0
    /\ status_code = 0
    /\ parser = "none"
    /\ df_src = "none"

InitPrep ==
    /\ LoadIdle
    /\ AppIdle
    /\ RaceIdle
    /\ ppc = "raw"
    /\ raw \in RawDatasets
    /\ clean = <<>>
    /\ removed_rows = 0
    /\ again = <<>>
    /\ info = FALSE

\* prepare_taxi_data(raw)
Prepare ==
    /\ ppc = "raw"
    /\ LET r == prepare_taxi_data(raw) IN
          /\ clean' = r.df
          /\ removed_rows' = r.removed_rows
          /\ info' = r.info
          /\ ppc' = IF r.raised THEN "raised" ELSE "prepared"
    /\ UNCHANGED <<raw, again, loadVars, appVars, raceVars>>

\* prepare_taxi_data applied to the dataset it returned
PrepareAgain ==
    /\ ppc = "prepared"
    /\ again' = prepare_taxi_data(clean).df
    /\ ppc' = "reprepared"
    /\ UNCHANGED <<raw, clean, removed_rows, info, loadVars, appVars, raceVars>>

NextPrep == Prepare \/ PrepareAgain

SpecPrep == InitPrep /\ [][NextPrep]_vars

(***************************************************************************)
(* Properties of prepare_taxi_data.                                        *)
(***************************************************************************)
\* C9: prepare_taxi_data applied to its own output returns that output: the
\* same columns with the same dtypes, the same rows with the same index
\* labels in the same order.
C9_PrepareIdempotent ==
    ppc = "reprepared" => again = clean

\* a keyword-named column that was integer or text is a timestamp column
\* after the first application, duplicates were removed, and the second
\* application has run
C9_Witness ==
    /\ ppc = "reprepared"
    /\ removed_rows > 0
    /\ \E j \in 1..Len(raw.cols) :
          /\ raw.cols[j].dtype \in {"int64", "object"}
          /\ clean.cols[j].dtype = "datetime64[ns]"

\* C10: the returned rows are the first occurrences of the distinct rows of
\* the coerced dataset, in their original order: no two returned rows are
\* equal in every column, row i of the coerced dataset is returned exactly
\* when no earlier row equals it, and the removal count is the number of
\* rows before minus the number after; five rows with four distinct ones
\* give four rows and the count 1.
C10_DropsExactlyLaterDuplicates ==
    ppc \in {"prepared", "reprepared"} =>
       LET c == Coerced(raw)
           n == Len(raw.rows)
           m == Len(clean.rows)
       IN
       /\ Len(c.rows) = n
       /\ clean.cols = c.cols
       /\ \A a, b \in 1..m : a # b => clean.rows[a].cells # clean.rows[b].cells
       /\ \A a \in 1..m :
             /\ clean.rows[a].idx \in 1..n
             /\ clean.rows[a] = c.rows[clean.rows[a].idx]
       /\ \A a, b \in 1..m : a < b => clean.rows[a].idx < clean.rows[b].idx
       /\ \A i \in 1..n :
             (\E a \in 1..m : clean.rows[a].idx = i)
                <=> (\A j \in 1..(i - 1) : c.rows[j].cells # c.rows[i].cells)
       /\ removed_rows = n - m
       /\ info <=> (removed_rows > 0)
       /\ (n = 5 /\ Cardinality({c.rows[i].cells : i \in 1..n}) = 4) =>
             (m = 4 /\ removed_rows = 1)

\* five rows, two of them identical, prepared
C10_Witness ==
    /\ ppc = "prepared"
    /\ Len(raw.rows) = 5
    /\ Cardinality({raw.rows[i].cells : i \in 1..5}) = 4
    /\ Len(clean.rows) = 4
    /\ removed_rows = 1

(***************************************************************************)
(* app.py: the script that Streamlit runs from top to bottom on every      *)
(* interaction.  One page run reads the sidebar widgets (lines 149-267),   *)
(* executes at most one load branch (lines 299-389) and renders the main   *)
(* content or the welcome screen (lines 392, 761).                         *)
(***************************************************************************)
MaxFiles == 2

ColPaymentType == <<"p", "a", "y", "m", "e", "n", "t", "_", "t", "y", "p", "e">>
ColRatecode == <<"R", "a", "t", "e", "c", "o", "d", "e", "I", "D">>
ColPickup == <<"p", "i", "c", "k", "u", "p", "_", "d", "a", "t", "e", "t", "i", "m", "e">>

\* lines 21-29
PAYMENT_TYPE_MAP ==
    (0 :> "0 - Flex Fare" @@ 1 :> "1 - Credit Card" @@ 2 :> "2 - Cash" @@
     3 :> "3 - No Charge" @@ 4 :> "4 - Dispute" @@ 5 :> "5 - Unknown" @@
     6 :> "6 - Voided Trip")

\* lines 31-36
VENDOR_ID_MAP ==
    (1 :> "1 - Creative Mobile Technologies" @@ 2 :> "2 - Curb Mobility" @@
     6 :> "6 - Myle Technologies" @@ 7 :> "7 - Helix")

\* lines 38-46
RATECODE_ID_MAP ==
    (1 :> "1 - Standard Rate" @@ 2 :> "2 - JFK" @@ 3 :> "3 - Newark" @@
     4 :> "4 - Nassau/Westchester" @@ 5 :> "5 - Negotiated Fare" @@
     6 :> "6 - Group Ride" @@ 99 :> "99 - Null/Unknown")

DigitChars == <<"0", "1", "2", "3", "4", "5", "6", "7", "8", "9">>

\* str() of an integer
RECURSIVE IntStr(_)
IntStr(n) ==
    IF n < 0 THEN "-" \o IntStr(0 - n)
    ELSE IF n < 10 THEN DigitChars[n + 1]
    ELSE IntStr(n \div 10) \o DigitChars[(n % 10) + 1]

\* lines 286, 290, 294: Series.astype(str) on one entry
astype_str(v) ==
    CASE v[1] = "int" -> IntStr(v[2])
      [] v[1] = "float" -> IntStr(v[2] \div 10) \o "." \o DigitChars[(v[2] % 10) + 1]
      [] v[1] = "str" -> v[2]
      [] v[1] = "bool" -> IF v[2] THEN "True" ELSE "False"
      [] v[1] = "nan" -> "nan"
      [] v[1] = "none" -> "None"
      [] v[1] = "nat" -> "NaT"

\* the dictionary key an entry is looked up under (1, 1.0 and True hash alike)
MapKey(v) ==
    CASE v[1] = "int" -> Some(v[2])
      [] v[1] = "float" -> IF v[2] % 10 = 0 THEN Some(v[2] \div 10) ELSE None
      [] v[1] = "bool" -> Some(IF v[2] THEN 1 ELSE 0)
      [] OTHER -> None

\* lines 286, 290, 294: col.map(m).fillna(col.astype(str)) on one entry
MapEntry(m, v) ==
    LET k == MapKey(v)
    IN  IF k # None /\ k[1] \in DOMAIN m THEN <<"str", m[k[1]]>>
        ELSE <<"str", astype_str(v)>>

\* lines 285, 289, 293: the dictionary applied to a column, if any
MappingOf(col) ==
    IF col.label # "str" THEN None
    ELSE IF col.name = ColPaymentType THEN Some(PAYMENT_TYPE_MAP)
    ELSE IF col.name = ColVendor THEN Some(VENDOR_ID_MAP)
    ELSE IF col.name = ColRatecode THEN Some(RATECODE_ID_MAP)
    ELSE None

\* lines 280-296
apply_data_mappings(df) ==
    [cols |-> [j \in 1..Len(df.cols) |->
                  IF MappingOf(df.cols[j]) # None
                  THEN [df.cols[j] EXCEPT !.dtype = "object"]
                  ELSE df.cols[j]],
     rows |-> [i \in 1..Len(df.rows) |->
                  [idx |-> df.rows[i].idx,
                   cells |-> [j \in 1..Len(df.cols) |->
                                IF MappingOf(df.cols[j]) # None
                                THEN MapEntry(MappingOf(df.cols[j])[1], df.rows[i].cells[j])
                                ELSE df.rows[i].cells[j]]]]]

Row(i, c) == [idx |-> i, cells |-> c]

\* Files a user can upload.  A file is [name, corrupt, content]: the reader
\* raises on a corrupt file and returns the dataset content otherwise.
TripCols == <<Col(ColTpepPickup, "object"), Col(ColVendor, "int64")>>
JanTrips ==
    [cols |-> TripCols,
     rows |-> <<Row(1, << <<"str", T1>>, <<"int", 1>> >>),
                Row(2, << <<"str", T2>>, <<"int", 2>> >>)>>]
FebTrips ==
    [cols |-> TripCols,
     rows |-> <<Row(1, << <<"str", T2>>, <<"int", 2>> >>),
                Row(2, << <<"str", "bad">>, <<"int", 3>> >>)>>]
ZoneFares ==
    [cols |-> <<Col(ColFare, "float64")>>,
     rows |-> <<Row(1, << <<"float", 12>> >>), Row(2, << <<"nan">> >>)>>]

\* the uploaded files by the name shown in the uploader; the widget state
\* refers to a file by this name
UploadedFile(name, corrupt, content) ==
    [name |-> name, corrupt |-> corrupt, content |-> content]
file ==
    ("jan.csv" :> UploadedFile(<<"j", "a", "n", ".", "c", "s", "v">>, FALSE, JanTrips) @@
     "feb.parquet" :> UploadedFile(<<"f", "e", "b", ".", "p", "a", "r", "q", "u", "e", "t">>,
                                   FALSE, FebTrips) @@
     "zones.csv" :> UploadedFile(<<"z", "o", "n", "e", "s", ".", "c", "s", "v">>,
                                 FALSE, ZoneFares) @@
     "bad.csv" :> UploadedFile(<<"b", "a", "d", ".", "c", "s", "v">>, TRUE,
                               [cols |-> <<>>, rows |-> <<>>]) @@
     "MAR.CSV" :> UploadedFile(<<"M", "A", "R", ".", "C", "S", "V">>, FALSE, JanTrips))
UploadFiles == DOMAIN file

\* lines 340-351: the reader chosen by the file's name
ReaderOf(name) ==
    IF endswith(name, ExtCsv) THEN "read_csv"
    ELSE IF endswith(name, ExtParquet) THEN "read_parquet"
    ELSE "none"

\* the files of one upload that a reader returns a dataset for
IsRead(f) == ReaderOf(file[f].name) # "none" /\ ~file[f].corrupt

\* the datasets among the files are of one layout
OneLayout(u) ==
    \A a, b \in 1..Len(u) :
       (IsRead(u[a]) /\ IsRead(u[b])) => file[u[a]].content.cols = file[u[b]].content.cols

\* faulty variant: a file whose reader raises is left out like an unsupported one
RECURSIVE ReadFiles_SkipUnreadable(_, _)
ReadFiles_SkipUnreadable(files, i) ==
    IF i > Len(files) THEN [raised |-> FALSE, dfs |-> <<>>]
    ELSE IF ~IsRead(files[i]) THEN ReadFiles_SkipUnreadable(files, i + 1)
    ELSE LET rest == ReadFiles_SkipUnreadable(files, i + 1)
         IN  [raised |-> FALSE, dfs |-> <<file[files[i]].content>> \o rest.dfs]

\* lines 337-351: the loop over uploaded_files from file i on; an unsupported
\* name is skipped by continue (line 351), a reader that raises leaves the
\* loop and the try of line 330
RECURSIVE ReadFiles(_, _)
ReadFiles(files, i) ==
    IF i > Len(files) THEN [raised |-> FALSE, dfs |-> <<>>]
    ELSE IF ReaderOf(file[files[i]].name) = "none" THEN ReadFiles(files, i + 1)
    ELSE IF file[files[i]].corrupt THEN [raised |-> TRUE, dfs |-> <<>>]
    ELSE LET rest == ReadFiles(files, i + 1)
         IN  [raised |-> rest.raised,
              dfs |-> IF rest.raised THEN <<>>
                      ELSE <<file[files[i]].content>> \o rest.dfs]

RECURSIVE RowsFrom(_, _)
RowsFrom(dfs, k) ==
    IF k > Len(dfs) THEN <<>> ELSE dfs[k].rows \o RowsFrom(dfs, k + 1)

\* line 355: pd.concat(dfs, ignore_index=True) of datasets of one layout
pd_concat(dfs) ==
    LET all == RowsFrom(dfs, 1)
    IN  [cols |-> dfs[1].cols,
         rows |-> [i \in 1..Len(all) |-> Row(i, all[i].cells)]]

\* line 368: select_dtypes(include=['datetime64']).columns.tolist()
datetime_cols(df) == { j \in 1..Len(df.cols) : df.cols[j].dtype = "datetime64[ns]" }

Least(S) == CHOOSE x \in S : \A y \in S : x <= y
Greatest(S) == CHOOSE x \in S : \A y \in S : x >= y

\* lines 370-377: the period read off the first datetime column (min and max
\* skip NaT and are NaT when nothing else is left)
AutoDetected(df) ==
    LET first_col == Least(datetime_cols(df))
        stamps == { df.rows[i].cells[first_col][2] :
                       i \in { r \in 1..Len(df.rows) : df.rows[r].cells[first_col][1] = "ts" } }
    IN  [type |-> "auto_detected",
         start_date |-> IF stamps = {} THEN <<"nat">> ELSE <<"ts", Least(stamps)>>,
         end_date |-> IF stamps = {} THEN <<"nat">> ELSE <<"ts", Greatest(stamps)>>,
         column |-> df.cols[first_col].name]

\* lines 308-326: the demonstration dataset, the same on every run (seed 42);
\* its first and last row and three of its thirteen columns.  Timestamps of
\* 2024 do not fit TLC's integers and are written out.
SampleData ==
    [cols |-> <<Col(ColPickup, "datetime64[ns]"), Col(ColPassengers, "int64"),
                Col(ColPaymentType, "object")>>,
     rows |-> <<Row(1, << <<"date", "2024-01-01">>, <<"int", 4>>, <<"str", "Credit Card">> >>),
                Row(2, << <<"date", "2024-12-31">>, <<"int", 2>>, <<"str", "Cash">> >>)>>]

\* lines 162-166
FileFormats == {"csv", "parquet", "xlsx"}

\* a spreadsheet whose header cell holds the number 2023
Sheet2023 ==
    [cols |-> <<IntLabelCol(Col2023, "int64")>>,
     rows |-> <<Row(1, << <<"int", 1>> >>), Row(2, << <<"int", 300>> >>)>>]

\* line 301: what load_data_from_gdrive can return for the chosen format:
\* None, or the dataset its reader parsed (read_excel labels a numeric header
\* cell with a number; read_csv and read_parquet label columns with strings)
DriveResults(file_format) ==
    {None, Some(JanTrips), Some(ZoneFares)}
       \cup (IF file_format = "xlsx" THEN {Some(Sheet2023)} ELSE {})

\* line 192: the choices of the "Tipe Periode" radio, the first the default
MetadataModes ==
    {"Auto-detect dari data", "Manual - Bulan & Tahun", "Manual - Rentang Tanggal"}

\* lines 198-252: data_period_info for the chosen "Tipe Periode", the other
\* period widgets at their defaults
PeriodInfo(metadata_mode, uploaded_files) ==
    IF metadata_mode = "Manual - Bulan & Tahun"
    THEN IF Len(uploaded_files) > 1
         THEN [type |-> "month_range", start_month |-> "Januari", start_year |-> 2023,
               end_month |-> "Desember", end_year |-> 2023]
         ELSE [type |-> "single_month", month |-> "Januari", year |-> 2023]
    ELSE IF metadata_mode = "Manual - Rentang Tanggal"
    THEN [type |-> "date_range", start_date |-> "2023-01-01", end_date |-> "2023-12-31"]
    ELSE [type |-> "auto_detect"]

\* lines 155-169: the widgets of single-file mode as first rendered
SingleDefault(use_sample) ==
    [load_mode |-> "Single File (Google Drive)", gdrive_url |-> <<>>,
     file_format |-> "csv", load_button |-> FALSE, uploaded_files |-> None,
     metadata_mode |-> None, data_period_info |-> None, use_sample |-> use_sample]

\* lines 170-256: the widgets of multi-file mode as first rendered
MultiDefault(use_sample) ==
    [load_mode |-> "Multiple Files (Upload Langsung)", gdrive_url |-> <<>>,
     file_format |-> "parquet", load_button |-> FALSE, uploaded_files |-> Some(<<>>),
     metadata_mode |-> Some("Auto-detect dari data"),
     data_period_info |-> Some(PeriodInfo("Auto-detect dari data", <<>>)),
     use_sample |-> use_sample]

\* multi-file mode with the given files and "Tipe Periode"
Multi(sb, up, mode) ==
    [sb EXCEPT !.uploaded_files = Some(up), !.metadata_mode = Some(mode),
               !.data_period_info = Some(PeriodInfo(mode, up))]

\* one list without its i-th element
Without(up, i) == [k \in 1..(Len(up) - 1) |-> IF k < i THEN up[k] ELSE up[k + 1]]

\* lines 149-267: the widget values the next page run can read.  One
\* interaction changes one widget and starts a run; the button is True only in
\* the run its click starts; a mode's widgets are created anew when the mode
\* is entered.
Interactions(sb) ==
    {[sb EXCEPT !.load_button = FALSE],
     [sb EXCEPT !.load_button = FALSE, !.use_sample = ~sb.use_sample]}
    \cup
    (IF sb.load_mode = "Single File (Google Drive)"
     THEN {MultiDefault(sb.use_sample), [sb EXCEPT !.load_button = TRUE]}
          \cup {[sb EXCEPT !.load_button = FALSE, !.gdrive_url = u] : u \in {<<>>, RefFileD}}
          \cup {[sb EXCEPT !.load_button = FALSE, !.file_format = f] : f \in FileFormats}
     ELSE LET up == sb.uploaded_files[1]
              mode == sb.metadata_mode[1]
          IN  {SingleDefault(sb.use_sample)}
              \cup {Multi(sb, up, m) : m \in MetadataModes}
              \cup {Multi(sb, Without(up, i), mode) : i \in 1..Len(up)}
              \cup {Multi(sb, Append(up, f), mode) :
                       f \in {g \in UploadFiles :
                                 Len(up) < MaxFiles /\ OneLayout(Append(up, g))}})

\* faulty variant: the sample checkbox is tested first
Branch_SampleFirst(sb) ==
    IF sb.use_sample THEN "sample"
    ELSE IF sb.load_button /\ sb.gdrive_url # <<>> THEN "drive"
    ELSE IF sb.uploaded_files # None /\ Len(sb.uploaded_files[1]) > 0 THEN "upload"
    ELSE "none"

\* lines 299, 306, 328: the if / elif / elif chain
Branch(sb) ==
    IF sb.load_button /\ sb.gdrive_url # <<>> THEN "drive"
    ELSE IF sb.use_sample THEN "sample"
    ELSE IF sb.uploaded_files # None /\ Len(sb.uploaded_files[1]) > 0 THEN "upload"
    ELSE "none"

\* lines 392, 761: the screen rendered for the session's df
Screen(ss) == IF ss.df # None THEN "content" ELSE "welcome"

\* faulty variant: whatever the load returned is stored
DriveStore_Unconditional(ss, loaded) ==
    IF loaded # None /\ prepare_taxi_data(loaded[1]).raised
    THEN [ss |-> ss, outcome |-> "raised"]
    ELSE IF loaded = None
    THEN [ss |-> [ss EXCEPT !.df = None], outcome |-> "stored"]
    ELSE [ss |-> [ss EXCEPT !.df =
                      Some(apply_data_mappings(prepare_taxi_data(loaded[1]).df))],
          outcome |-> "stored"]

\* lines 302-305: the Drive branch after load_data_from_gdrive returned loaded;
\* an exception of prepare_taxi_data (line 303) is not handled and ends the run
DriveStore(ss, loaded) ==
    IF loaded = None THEN [ss |-> ss, outcome |-> "none returned"]
    ELSE LET p == prepare_taxi_data(loaded[1])
         IN  IF p.raised THEN [ss |-> ss, outcome |-> "raised"]
             ELSE [ss |-> [ss EXCEPT !.df = Some(apply_data_mappings(p.df))],
                   outcome |-> "stored"]

\* faulty variant: the sample load starts from a fresh session
SampleStore_ResetPeriod(ss) == [df |-> Some(SampleData), data_period |-> None]

\* line 326
SampleStore(ss) == [ss EXCEPT !.df = Some(SampleData)]

\* lines 337-359: the files read, combined, prepared and mapped; every
\* exception in between reaches the except of line 388
MergeFiles(uploaded_files) ==
    LET r == ReadFiles(uploaded_files, 1)
    IN  IF r.raised THEN [outcome |-> "raised", df |-> None]
        ELSE IF r.dfs = <<>> THEN [outcome |-> "nothing read", df |-> None]
        ELSE LET p == prepare_taxi_data(pd_concat(r.dfs))
             IN  IF p.raised THEN [outcome |-> "raised", df |-> None]
                 ELSE [outcome |-> "stored", df |-> Some(apply_data_mappings(p.df))]

\* lines 364-378: the period stored with the combined dataset
PeriodStore(ss, combined_df, data_period_info) ==
    IF data_period_info.type # "auto_detect" THEN Some(data_period_info)
    ELSE IF datetime_cols(combined_df) # {} THEN Some(AutoDetected(combined_df))
    ELSE ss.data_period

\* lines 330-389: the upload branch
UploadStore(ss, uploaded_files, data_period_info) ==
    LET m == MergeFiles(uploaded_files)
    IN  IF m.outcome # "stored" THEN [ss |-> ss, outcome |-> m.outcome]
        ELSE [ss |-> [df |-> m.df,
                      data_period |-> PeriodStore(ss, m.df[1], data_period_info)],
              outcome |-> "stored"]

\* lines 273-278: the first page run of a session, default widgets, no load
InitApp ==
    /\ LoadIdle
    /\ PrepIdle
    /\ RaceIdle
    /\ sidebar = SingleDefault(FALSE)
    /\ session_state = [df |-> None, data_period |-> None]
    /\ rerun = [branch |-> "none", outcome |-> "idle", screen |-> "welcome"]

\* a page run whose widgets select the Drive branch (lines 299-305)
RerunDrive ==
    /\ \E sb \in Interactions(sidebar) :
          /\ Branch(sb) = "drive"
          /\ sidebar' = sb
          /\ \E loaded \in DriveResults(sb.file_format) :
                LET r == DriveStore(session_state, loaded)
                IN  /\ session_state' = r.ss
                    /\ rerun' = [branch |-> "drive", outcome |-> r.outcome,
                                 screen |-> IF r.outcome = "raised" THEN "exception"
                                            ELSE Screen(r.ss)]
    /\ UNCHANGED <<loadVars, prepVars, raceVars>>

\* a page run whose widgets select the sample branch (lines 306-327)
RerunSample ==
    /\ \E sb \in Interactions(sidebar) :
          /\ Branch(sb) = "sample"
          /\ sidebar' = sb
          /\ session_state' = SampleStore(session_state)
          /\ rerun' = [branch |-> "sample", outcome |-> "stored",
                       screen |-> Screen(SampleStore(session_state))]
    /\ UNCHANGED <<loadVars, prepVars, raceVars>>

\* a page run whose widgets select the upload branch (lines 328-389)
RerunUpload ==
    /\ \E sb \in Interactions(sidebar) :
          /\ Branch(sb) = "upload"
          /\ sidebar' = sb
          /\ LET r == UploadStore(session_state, sb.uploaded_files[1], sb.data_period_info[1])
             IN  /\ session_state' = r.ss
                 /\ rerun' = [branch |-> "upload", outcome |-> r.outcome,
                              screen |-> Screen(r.ss)]
    /\ UNCHANGED <<loadVars, prepVars, raceVars>>

\* a page run whose widgets select no load branch
RerunNoLoad ==
    /\ \E sb \in Interactions(sidebar) :
          /\ Branch(sb) = "none"
          /\ sidebar' = sb
          /\ session_state' = session_state
          /\ rerun' = [branch |-> "none", outcome |-> "idle",
                       screen |-> Screen(session_state)]
    /\ UNCHANGED <<loadVars, prepVars, raceVars>>

NextApp == RerunDrive \/ RerunSample \/ RerunUpload \/ RerunNoLoad

SpecApp == InitApp /\ [][NextApp]_vars

(***************************************************************************)
(* Two invocations of load_data_from_gdrive that run at the same time (two *)
(* browser sessions of the app, each running app.py lines 299-301) with    *)
(* different references and the same output filename.  Each load takes the *)
(* steps of lines 64-115 one at a time; the steps of the two loads         *)
(* interleave freely, since nothing in the code locks the destination.     *)
(***************************************************************************)
Loads == {1, 2}

Other(i) == CHOOSE j \in Loads : j # i

\* the references of the two loads differ
RaceFileId(i) == IF i = 1 THEN IdABC ELSE IdXYZ

\* load i ends returning r
RaceEnd(i, r) == loads' = [loads EXCEPT ![i].pc = "done", ![i].ret = r]

\* the state when both loads have extracted their file_id (line 58)
InitRace ==
    /\ LoadIdle
    /\ PrepIdle
    /\ AppIdle
    /\ loads = [i \in Loads |-> [file_id |-> Some(RaceFileId(i)), pc |-> "primary",
                                 result |-> None, ret |-> "pending",
                                 df_src |-> [by |-> 0, bytes |-> "none"]]]
    /\ dest \in {[by |-> 0, bytes |-> "absent"], [by |-> 0, bytes |-> "old"]}

\* lines 65-87 of load i: gdown.download writes the destination and returns
\* its path, returns without writing, raises AttributeError or raises
\* another exception
RacePrimary(i) ==
    /\ loads[i].pc = "primary"
    /\ \/ /\ dest' = [by |-> i, bytes |-> "gdown"]
          /\ loads' = [loads EXCEPT ![i].pc = "check", ![i].result = Some(NameCsv)]
       \/ /\ \E r \in {None, Some(NameCsv)} :
                loads' = [loads EXCEPT ![i].pc = "check", ![i].result = r]
          /\ dest' = dest
       \/ /\ loads' = [loads EXCEPT ![i].pc = "fallback"]
          /\ dest' \in {dest, [by |-> i, bytes |-> "partial"]}
       \/ /\ RaceEnd(i, "None")
          /\ dest' \in {dest, [by |-> i, bytes |-> "partial"]}
    /\ UNCHANGED <<loadVars, prepVars, appVars>>

\* lines 71-83 of load i up to open(output_filename, 'wb'), which creates or
\* truncates the destination
RaceFallbackOpen(i) ==
    /\ loads[i].pc = "fallback"
    /\ \/ \* requests.get raises, the status is not 200, or open raises
          /\ RaceEnd(i, "None")
          /\ dest' = dest
       \/ /\ loads' = [loads EXCEPT ![i].pc = "write"]
          /\ dest' = [by |-> i, bytes |-> "partial"]
    /\ UNCHANGED <<loadVars, prepVars, appVars>>

\* lines 76-77 of load i: f.write(response.content) completes or raises
RaceFallbackWrite(i) ==
    /\ loads[i].pc = "write"
    /\ \/ /\ dest' = [by |-> i, bytes |-> "body"]
          /\ loads' = [loads EXCEPT ![i].pc = "check", ![i].result = Some(NameCsv)]
       \/ /\ RaceEnd(i, "None")
          /\ dest' = dest
    /\ UNCHANGED <<loadVars, prepVars, appVars>>

\* lines 89-96 of load i
RaceCheck(i) ==
    /\ loads[i].pc = "check"
    /\ IF loads[i].result = None \/ dest.bytes = "absent"
       THEN RaceEnd(i, "None")
       ELSE loads' = [loads EXCEPT ![i].pc = "parse"]
    /\ dest' = dest
    /\ UNCHANGED <<loadVars, prepVars, appVars>>

\* faulty variant: a load parses the destination only while the file there is
\* the one it wrote itself
RaceParse_OwnFileOnly(i) ==
    /\ loads[i].pc = "parse"
    /\ \/ /\ dest.by = i
          /\ loads' = [loads EXCEPT ![i].pc = "done", ![i].ret = "Loaded",
                                    ![i].df_src = dest]
       \/ RaceEnd(i, "None")
    /\ dest' = dest
    /\ UNCHANGED <<loadVars, prepVars, appVars>>

\* lines 101-115 of load i: read_csv reads whatever is at the destination
\* now and the load returns the table, or the reader raises (line 117)
RaceParse(i) ==
    /\ loads[i].pc = "parse"
    /\ \/ loads' = [loads EXCEPT ![i].pc = "done", ![i].ret = "Loaded",
                                 ![i].df_src = dest]
       \/ RaceEnd(i, "None")
    /\ dest' = dest
    /\ UNCHANGED <<loadVars, prepVars, appVars>>

NextRace ==
    \E i \in Loads :
       \/ RacePrimary(i)
       \/ RaceFallbackOpen(i)
       \/ RaceFallbackWrite(i)
       \/ RaceCheck(i)
       \/ RaceParse(i)

SpecRace == InitRace /\ [][NextRace]_vars

\* prepare_taxi_data returned a dataset
Prepared == ppc \in {"prepared", "reprepared"}

\* c is the letter d of a keyword, in either case
FoldsTo(c, d) == c = d \/ \E n \in 1..26 : c = UpperLetters[n] /\ d = LowerLetters[n]

\* the name holds one of 'pickup', 'dropoff', 'date', 'time', in any case
NamedLikeTimestamp(name) ==
    \E k \in Keywords : \E i \in 1..Len(name) :
        /\ i + Len(k) - 1 <= Len(name)
        /\ \A q \in 1..Len(k) : FoldsTo(name[i + q - 1], k[q])

\* the entries that have a timestamp, and that timestamp
Parseable(v) == v[1] \in {"int", "float", "ts"} \/ v \in {<<"str", T1>>, <<"str", T2>>}
TimestampOf(v) ==
    CASE v[1] = "int" -> v[2]
      [] v[1] = "ts" -> v[2]
      [] v = <<"float", 10>> -> 1
      [] v = <<"float", 12>> -> 1
      [] v = <<"str", T1>> -> 1000000000
      [] v = <<"str", T2>> -> 2000000000

\* C11: a column whose name holds a keyword in any case is parsed whatever
\* its dtype: it becomes datetime64, every parseable entry its timestamp and
\* every other entry NaT; a column whose parsing fails as a whole (boolean)
\* is left as it was; a column named otherwise keeps its entries and is not
\* made a timestamp column.
C11_KeywordColumnsParsed ==
    Prepared =>
       \A j \in 1..Len(raw.cols) : \A a \in 1..Len(clean.rows) :
          LET before == raw.rows[clean.rows[a].idx].cells[j]
              after == clean.rows[a].cells[j]
          IN  IF NamedLikeTimestamp(raw.cols[j].name)
              THEN IF raw.cols[j].dtype = "bool"
                   THEN after = before /\ clean.cols[j].dtype = "bool"
                   ELSE /\ clean.cols[j].dtype = "datetime64[ns]"
                        /\ Parseable(before) => after = <<"ts", TimestampOf(before)>>
                        /\ ~Parseable(before) => after = <<"nat">>
              ELSE /\ after = before
                   /\ clean.cols[j].dtype = "datetime64[ns]"
                         => raw.cols[j].dtype = "datetime64[ns]"

\* 'tpep_pickup_datetime' read as text, one malformed entry among valid ones
C11_Witness ==
    /\ ppc = "prepared"
    /\ Len(raw.cols) = 1
    /\ raw.cols[1] = Col(ColTpepPickup, "object")
    /\ \E a, b \in 1..Len(raw.rows) :
          /\ raw.rows[a].cells[1] = <<"str", "bad">>
          /\ raw.rows[b].cells[1] = <<"str", T1>>
    /\ clean.cols[1].dtype = "datetime64[ns]"
    /\ \E a, b \in 1..Len(clean.rows) :
          /\ clean.rows[a].cells[1] = <<"nat">>
          /\ clean.rows[b].cells[1] = <<"ts", 1000000000>>

\* row i of dataset t repeats an earlier row in every column
RepeatsEarlier(t, i) == \E j \in 1..(i - 1) : t.rows[j].cells = t.rows[i].cells

\* C12: the returned dataset has at most the rows of the raw one, and as
\* many exactly when no row of the coerced dataset repeats an earlier one.
C12_RowCountMonotone ==
    Prepared =>
       /\ Len(clean.rows) <= Len(raw.rows)
       /\ Len(clean.rows) = Len(raw.rows)
             <=> ~(\E i \in 1..Len(raw.rows) : RepeatsEarlier(Coerced(raw), i))

\* rows that differ in the raw dataset and coincide once coerced were removed
C12_Witness ==
    /\ ppc = "prepared"
    /\ Len(clean.rows) < Len(raw.rows)
    /\ ~(\E i \in 1..Len(raw.rows) : RepeatsEarlier(raw, i))

\* C13: prepare_taxi_data returns a dataset for every input dataset; it never
\* ends by raising.
C13_PrepareNeverRaises ==
    ppc # "raised"

\* C14: the returned dataset has the raw dataset's column names, in the same
\* order, and every row has one cell per column.
C14_ColumnSetPreserved ==
    Prepared =>
       /\ Len(clean.cols) = Len(raw.cols)
       /\ \A j \in 1..Len(raw.cols) : clean.cols[j].name = raw.cols[j].name
       /\ \A a \in 1..Len(clean.rows) : Len(clean.rows[a].cells) = Len(raw.cols)

\* two columns, one of them parsed as timestamps, and duplicates removed
C14_Witness ==
    /\ ppc = "prepared"
    /\ Len(raw.cols) = 2
    /\ removed_rows > 0
    /\ \E j \in 1..2 : raw.cols[j].dtype = "object" /\ clean.cols[j].dtype = "datetime64[ns]"

\* the files of the last page run's upload, None in single-file mode
Uploaded == IF sidebar.uploaded_files = None THEN <<>> ELSE sidebar.uploaded_files[1]

\* the file's name ends in one of the two extensions the loop accepts
Supported(f) == endswith(file[f].name, ExtCsv) \/ endswith(file[f].name, ExtParquet)

\* the datasets of the given files, in upload order, combined and cleaned
RECURSIVE ContentsOf(_)
ContentsOf(up) ==
    IF up = <<>> THEN <<>> ELSE <<file[Head(up)].content>> \o ContentsOf(Tail(up))
CombinedOf(up) == apply_data_mappings(prepare_taxi_data(pd_concat(ContentsOf(up))).df)

\* the files of an upload other than those that cannot be read
CanBeRead(f) == Supported(f) /\ ~file[f].corrupt
Readable(up) == SelectSeq(up, CanBeRead)

\* C15 as stated: when one file of an upload cannot be read and another can,
\* the session holds the combined rows of the other files.
C15_UnreadableFileSkipped ==
    (/\ rerun.branch = "upload"
     /\ Cardinality({i \in 1..Len(Uploaded) : ~CanBeRead(Uploaded[i])}) = 1
     /\ Readable(Uploaded) # <<>>)
       => session_state.df = Some(CombinedOf(Readable(Uploaded)))

\* C15, amended: the upload branch skips the files whose name ends neither in
\* .csv nor in .parquet; when the reader raises on one of the remaining files
\* the whole upload is given up and the session is left as it was; otherwise,
\* if a file remains, the session holds the rows of the remaining files in
\* upload order, cleaned and without later duplicates.
C15_UnsupportedSkippedUnreadableAborts ==
    [][rerun'.branch = "upload" =>
         LET up == sidebar'.uploaded_files[1]
             kept == SelectSeq(up, Supported)
         IN  IF \E i \in 1..Len(kept) : file[kept[i]].corrupt
             THEN rerun'.outcome = "raised" /\ session_state' = session_state
             ELSE IF kept = <<>>
             THEN rerun'.outcome = "nothing read" /\ session_state' = session_state
             ELSE /\ rerun'.outcome = "stored"
                  /\ session_state'.df = Some(CombinedOf(kept))
                  /\ \A a, b \in 1..Len(session_state'.df[1].rows) :
                        a < b => session_state'.df[1].rows[a].idx
                                    < session_state'.df[1].rows[b].idx]_vars

\* a readable file followed by a corrupt one, with a dataset from an earlier
\* run still in the session
C15_Witness ==
    /\ rerun.branch = "upload"
    /\ Uploaded = <<"jan.csv", "bad.csv">>
    /\ rerun.outcome = "raised"
    /\ session_state.df # None

\* C18: only a load branch that produced a dataset assigns the session's df:
\* a Drive load that returned None, an upload in which nothing was read and
\* an upload that raised leave it as it was; once it is not None it stays
\* so and the welcome screen is not rendered again.
C18_DfAssignedOnlyWithDataset ==
    [][/\ rerun'.outcome \in {"none returned", "nothing read", "raised", "idle"}
             => session_state'.df = session_state.df
       /\ session_state'.df # session_state.df => session_state'.df # None
       /\ session_state.df # None
             => session_state'.df # None /\ rerun'.screen # "welcome"]_vars

\* a Drive load returned None while the session held a dataset
C18_Witness ==
    /\ rerun.branch = "drive"
    /\ rerun.outcome = "none returned"
    /\ session_state.df # None
    /\ rerun.screen = "content"

\* C19: the branch of a page run is the Drive load when the button was
\* pressed and the URL is not empty, otherwise the sample when the checkbox
\* is ticked, otherwise the upload when a file is uploaded, otherwise none;
\* whenever the sample branch runs the session's df is the sample dataset.
C19_BranchPrecedence ==
    LET drive == sidebar.load_button /\ sidebar.gdrive_url # <<>>
        sample == sidebar.use_sample
        upload == Len(Uploaded) > 0
    IN  /\ rerun.branch = "drive" <=> drive
        /\ rerun.branch = "sample" <=> (~drive /\ sample)
        /\ rerun.branch = "upload" <=> (~drive /\ ~sample /\ upload)
        /\ rerun.branch = "none" <=> (~drive /\ ~sample /\ ~upload)
        /\ (~drive /\ sample) => session_state.df = Some(SampleData)

\* the checkbox ticked while files are uploaded: the sample is stored
C19_Witness ==
    /\ sidebar.use_sample
    /\ Len(Uploaded) > 0
    /\ rerun.branch = "sample"
    /\ session_state.df = Some(SampleData)

\* C20: data_period changes only in a page run whose upload branch stored a
\* combined dataset; the Drive and the sample branch leave it as it was, and
\* so does an auto-detect upload whose combined dataset has no datetime
\* column.
C20_PeriodWrittenOnlyByMerge ==
    [][/\ session_state'.data_period # session_state.data_period
             => rerun'.branch = "upload" /\ rerun'.outcome = "stored"
       /\ rerun'.branch \in {"drive", "sample", "none"}
             => session_state'.data_period = session_state.data_period
       /\ (/\ rerun'.branch = "upload"
           /\ rerun'.outcome = "stored"
           /\ sidebar'.data_period_info[1].type = "auto_detect"
           /\ \A j \in 1..Len(session_state'.df[1].cols) :
                 session_state'.df[1].cols[j].dtype # "datetime64[ns]")
             => session_state'.data_period = session_state.data_period]_vars

\* the sample dataset in the session with the period of an earlier upload
C20_Witness ==
    /\ rerun.branch = "sample"
    /\ session_state.df = Some(SampleData)
    /\ session_state.data_period # None

\* C16: nothing locks the destination.  A load that passed the existence
\* check while the destination holds bytes the other load wrote can return a
\* table parsed from these bytes, and a load about to download can replace
\* the destination while the other load is between its check and its parse.
C16_NoLockOnDestination ==
    \A i \in Loads :
       /\ (loads[i].pc = "parse" /\ dest.by = Other(i))
             => ENABLED (/\ RaceParse(i)
                         /\ loads'[i].ret = "Loaded"
                         /\ loads'[i].df_src.by = Other(i))
       /\ (loads[i].pc = "parse" /\ loads[Other(i)].pc = "primary")
             => ENABLED (RacePrimary(Other(i)) /\ dest'.by = Other(i))

\* a load that wrote the destination itself returned Loaded with a table
\* parsed from bytes the other load wrote afterwards
C16_Witness ==
    \E i \in Loads :
       /\ loads[i].pc = "done"
       /\ loads[i].ret = "Loaded"
       /\ loads[i].result # None
       /\ loads[i].df_src.by = Other(i)
       /\ loads[i].df_src.bytes \in {"gdown", "body", "partial"}

\* the contents that the transports of this invocation write: gdown's file
\* (line 67) and the response body (line 76)
OwnBytes == {"gdown", "body"}

\* C17: a load returns Loaded only with a table parsed from bytes that its own
\* transport wrote; a file that was at the destination before the call is
\* never what the parser read.
C17_LoadedOnlyFromOwnBytes ==
    (pc = "done" /\ ret = "Loaded") => df_src \in OwnBytes

\* C21: pattern 3 never decides the extraction.  Wherever '/open?id=ID'
\* matches a reference, 'id=ID' matches it at the position of its 'id=', so
\* once extraction has run file_id is what patterns 1 and 2 alone give, in
\* that order: the capture of pattern 1 if it matches, else the capture of
\* pattern 2 if it matches, else None (InvalidReference).
C21_Pattern3NeverDecides ==
    LET s == gdrive_url IN
    /\ \A i \in 1..Len(s) :
          MatchAt(pattern3, s, i) => MatchAt(pattern2, s, i + Len(pattern3) - Len(pattern2))
    /\ pc # "extract" =>
          /\ Matches(pattern1, s) => file_id # None /\ IsCapture(pattern1, s, file_id[1])
          /\ (~Matches(pattern1, s) /\ Matches(pattern2, s))
                => file_id # None /\ IsCapture(pattern2, s, file_id[1])
          /\ (~Matches(pattern1, s) /\ ~Matches(pattern2, s)) => file_id = None

\* a reference of the form '/open?id=ID' was extracted: pattern 1 does not
\* match, pattern 3 does, and file_id is the capture of pattern 2
C21_Witness ==
    /\ pc # "extract"
    /\ ~Matches(pattern1, gdrive_url)
    /\ Matches(pattern3, gdrive_url)
    /\ file_id # None
    /\ IsCapture(pattern2, gdrive_url, file_id[1])

====
